---- MODULE Spec2Model ----
(***************************************************************************)
(* Model of compliance-checks/run_compliance_check.py: the command-line    *)
(* driver main() of the EU Data Act compliance checker.  One run of the    *)
(* script is one behaviour: the parsed arguments and the file system are   *)
(* chosen in Init, every statement group of main() is one action, and the  *)
(* calls made to the external compliance_checker module are recorded in    *)
(* the sequence calls together with their outcome.                         *)
(***************************************************************************)
EXTENDS Integers, Sequences, FiniteSets

\* ---------------------------------------------------------------- bounds
\* largest number of reports a check call returns
MaxReports == 2

\* ------------------------------------------------------ values and inputs
\* Python's None, for an option that was not passed
None == "<None>"

\* bool(x) of an optional string: None and "" are falsy
Truthy(x) == x # None /\ x # ""

DefaultOntology == "dataact-ontology.owl"

DefaultQueries == "queries"

ContractLists == {<<>>, <<"a.owl">>, <<"a.owl", "b.owl">>}

DirectoryArgs == {None, "", "contracts"}

ExportArgs == {None, "", "report.json"}

OntologyArgs == {DefaultOntology, "custom.owl"}

\* the parsed command line (argparse namespace)
ArgsSet ==
    [contracts : ContractLists, directory : DirectoryArgs,
     ontology : OntologyArgs, queries : {DefaultQueries},
     export : ExportArgs, verbose : BOOLEAN, summary_only : BOOLEAN]

\* which of the ontology / queries paths exist on disk
FileSystems == SUBSET {DefaultOntology, "custom.owl", DefaultQueries}

\* a report is opaque but for overall_compliant; id tells reports apart
Report == [id : 1..MaxReports, overall_compliant : BOOLEAN]

ReportSeqs ==
    UNION { {rs \in [1..n -> Report] : \A k \in 1..n : rs[k].id = k}
            : n \in 0..MaxReports }

\* how a call into a collaborator can end
Outcomes == {"ok", "FileNotFoundError", "KeyboardInterrupt", "Exception"}

\* main() has not returned a value
NoReturn == -1

\* the process has not terminated
Running == -1

\* process status after a KeyboardInterrupt leaves main() uncaught: 1 with
\* a traceback (CPython before 3.8), death by SIGINT which a shell shows
\* as 130 (POSIX, CPython 3.8 and later), STATUS_CONTROL_C_EXIT as a signed
\* 32-bit number (Windows)
UncaughtInterruptStatus == {1, 130, -1073741510}

VARIABLES
    args,      \* the parsed arguments
    fs,        \* the files that exist
    pc,        \* position in main()
    reports,   \* the local variable reports
    i,         \* index of the for loop over reports
    calls,     \* the collaborator calls made so far, with their outcome
    out,       \* what main() itself printed, as a sequence of tags
    raised,    \* the exceptions raised so far: [kind, at]
    retval,    \* the value main() returned
    status     \* the exit status of the process

vars == <<args, fs, pc, reports, i, calls, out, raised, retval, status>>

\* the statements enclosed by try: (lines 103-145)
TryBody == {"construct", "check", "empty", "print_reports", "summary",
            "export", "result"}

\* ------------------------------------------------------ decisions of main
\* line 91 with the directory tested against None instead of for truth
MissingInputIsNone(a) == Len(a.contracts) = 0 /\ a.directory = None

\* line 91: not args.contracts and not args.directory
MissingInput(a) == Len(a.contracts) = 0 /\ ~Truthy(a.directory)

\* line 116 with explicit contract paths taking precedence
UseDirectoryUnlessContracts(a) ==
    Truthy(a.directory) /\ Len(a.contracts) = 0

\* line 116: if args.directory
UseDirectory(a) == Truthy(a.directory)

\* line 126 with the empty test dropped
NoReportsNever(rs) == FALSE

\* line 126: if not reports
NoReports(rs) == Len(rs) = 0

\* line 131: if not args.summary_only
ShouldPrintReports(a) == ~a.summary_only

\* line 132 iterating over reversed(reports)
ReportAtReversed(rs, k) == rs[Len(rs) - k + 1]

\* line 132: for report in reports -- the k-th report printed
ReportAt(rs, k) == rs[k]

\* line 136 with len(reports) >= 1
ShouldPrintSummaryOffByOne(rs, a) == Len(rs) >= 1 \/ a.summary_only

\* line 136: len(reports) > 1 or args.summary_only
ShouldPrintSummary(rs, a) == Len(rs) > 1 \/ a.summary_only

\* line 140 with the export nested under the per-report branch
ShouldExportUnlessSummaryOnly(a) == Truthy(a.export) /\ ~a.summary_only

\* line 140: if args.export
ShouldExport(a) == Truthy(a.export)

\* line 144 with any() for all()
AnyCompliant(rs) == \E k \in 1..Len(rs) : rs[k].overall_compliant

\* line 144: all(r.overall_compliant for r in reports)
AllCompliant(rs) == \A k \in 1..Len(rs) : rs[k].overall_compliant

\* line 145: 0 if all_compliant else 1
ExitCode(rs) == IF AllCompliant(rs) THEN 0 ELSE 1

\* lines 147-153 with the FileNotFoundError clause missing
HandlerForNoFileNotFound(kind) ==
    CASE kind = "KeyboardInterrupt" -> "except_kbi"
      [] OTHER -> "except_fatal"

\* lines 153-157 with the unexpected exception swallowed (except: pass)
HandlerForSwallow(kind) ==
    CASE kind = "FileNotFoundError" -> "except_fnf"
      [] kind = "KeyboardInterrupt" -> "except_kbi"
      [] OTHER -> "result"

\* lines 147-153: the except clause that takes an exception of this kind
HandlerFor(kind) ==
    CASE kind = "FileNotFoundError" -> "except_fnf"
      [] kind = "KeyboardInterrupt" -> "except_kbi"
      [] OTHER -> "except_fatal"

\* ------------------------------------------------------- the collaborators
\* DataActComplianceChecker(base_ontology_path, queries_dir): raises a
\* missing-file error when either path is absent
ConstructOutcomes(a, files) ==
    IF a.ontology \notin files \/ a.queries \notin files
    THEN {"FileNotFoundError", "KeyboardInterrupt"}
    ELSE {"ok", "KeyboardInterrupt", "Exception"}

\* one recorded call
Call(fn, path, paths, reps, verbose, result, ret) ==
    [fn |-> fn, path |-> path, paths |-> paths, reps |-> reps,
     verbose |-> verbose, result |-> result, ret |-> ret]

\* --------------------------------------------------------------- plumbing
\* return v from main(); line 161 hands it to sys.exit
Return(v) ==
    /\ pc' = "done"
    /\ retval' = v
    /\ status' = v

\* an exception of this kind is raised at the current statement
Raise(kind) ==
    /\ raised' = Append(raised, [kind |-> kind, at |-> pc])
    /\ IF pc \in TryBody
       THEN /\ pc' = HandlerFor(kind)
            /\ UNCHANGED <<retval, status>>
       ELSE /\ pc' = "done"
            /\ retval' = NoReturn
            /\ status' \in UncaughtInterruptStatus

Init ==
    /\ args \in ArgsSet
    /\ fs \in FileSystems
    /\ pc = "parse"
    /\ reports = <<>>
    /\ i = 0
    /\ calls = <<>>
    /\ out = <<>>
    /\ raised = <<>>
    /\ retval = NoReturn
    /\ status = Running

\* ---------------------------------------------------------------- actions
\* line 88: args = parser.parse_args()
ParseArgs ==
    /\ pc = "parse"
    /\ pc' = "validate"
    /\ UNCHANGED <<args, fs, reports, i, calls, out, raised, retval, status>>

\* lines 91-94: validate inputs
Validate ==
    /\ pc = "validate"
    /\ IF MissingInput(args)
       THEN /\ out' = out \o <<"help", "input_error">>
            /\ Return(1)
       ELSE /\ pc' = "header"
            /\ UNCHANGED <<out, retval, status>>
    /\ UNCHANGED <<args, fs, reports, i, calls, raised>>

\* lines 97-101: print header
PrintHeader ==
    /\ pc = "header"
    /\ out' = Append(out, "header")
    /\ pc' = "construct"
    /\ UNCHANGED <<args, fs, reports, i, calls, raised, retval, status>>

\* lines 105-114: initialize checker, reports = []
Construct ==
    /\ pc = "construct"
    /\ \E o \in ConstructOutcomes(args, fs) :
         /\ calls' = Append(calls,
                Call("construct", args.ontology, <<args.queries>>, <<>>, FALSE,
                     o, <<>>))
         /\ IF o = "ok"
            THEN /\ out' = out \o <<"loading", "loaded">>
                 /\ pc' = "check"
                 /\ UNCHANGED <<raised, retval, status>>
            ELSE /\ out' = Append(out, "loading")
                 /\ Raise(o)
    /\ reports' = <<>>
    /\ UNCHANGED <<args, fs, i>>

\* lines 116-124: collect reports
Check ==
    /\ pc = "check"
    /\ \/ \E rs \in ReportSeqs :
            /\ IF UseDirectory(args)
               THEN /\ calls' = Append(calls,
                        Call("check_directory", args.directory, <<>>, <<>>,
                             FALSE, "ok", rs))
                    /\ out' = out \o <<"scanning", "found">>
               ELSE /\ calls' = Append(calls,
                        Call("check_multiple_contracts", None,
                             args.contracts, <<>>, FALSE, "ok", rs))
                    /\ out' = Append(out, "checking")
            /\ reports' = rs
            /\ pc' = "empty"
            /\ UNCHANGED <<raised, retval, status>>
       \/ \E o \in Outcomes \ {"ok"} :
            /\ IF UseDirectory(args)
               THEN /\ calls' = Append(calls,
                        Call("check_directory", args.directory, <<>>, <<>>,
                             FALSE, o, <<>>))
                    /\ out' = Append(out, "scanning")
               ELSE /\ calls' = Append(calls,
                        Call("check_multiple_contracts", None,
                             args.contracts, <<>>, FALSE, o, <<>>))
                    /\ out' = Append(out, "checking")
            /\ Raise(o)
            /\ UNCHANGED reports
    /\ UNCHANGED <<args, fs, i>>

\* lines 126-128: nothing to check
EmptyCheck ==
    /\ pc = "empty"
    /\ IF NoReports(reports)
       THEN /\ out' = Append(out, "no_contracts")
            /\ Return(0)
            /\ UNCHANGED i
       ELSE /\ pc' = "print_reports"
            /\ i' = 1
            /\ UNCHANGED <<out, retval, status>>
    /\ UNCHANGED <<args, fs, reports, calls, raised>>

\* lines 131-133: print reports, one loop iteration per step
PrintReports ==
    /\ pc = "print_reports"
    /\ IF ShouldPrintReports(args) /\ i <= Len(reports)
       THEN \E o \in Outcomes :
              /\ calls' = Append(calls,
                     Call("print_report", None, <<>>,
                          <<ReportAt(reports, i)>>, args.verbose, o, <<>>))
              /\ IF o = "ok"
                 THEN /\ i' = i + 1
                      /\ UNCHANGED <<pc, raised, retval, status>>
                 ELSE /\ Raise(o)
                      /\ UNCHANGED i
       ELSE /\ pc' = "summary"
            /\ UNCHANGED <<i, calls, raised, retval, status>>
    /\ UNCHANGED <<args, fs, reports, out>>

\* lines 136-137: print summary
PrintSummary ==
    /\ pc = "summary"
    /\ IF ShouldPrintSummary(reports, args)
       THEN \E o \in Outcomes :
              /\ calls' = Append(calls,
                     Call("print_summary", None, <<>>, reports, FALSE, o,
                          <<>>))
              /\ IF o = "ok"
                 THEN /\ pc' = "export"
                      /\ UNCHANGED <<raised, retval, status>>
                 ELSE Raise(o)
       ELSE /\ pc' = "export"
            /\ UNCHANGED <<calls, raised, retval, status>>
    /\ UNCHANGED <<args, fs, reports, i, out>>

\* lines 140-141: export if requested
Export ==
    /\ pc = "export"
    /\ IF ShouldExport(args)
       THEN \E o \in Outcomes :
              /\ calls' = Append(calls,
                     Call("export_json", args.export, <<>>, reports, FALSE,
                          o, <<>>))
              /\ IF o = "ok"
                 THEN /\ pc' = "result"
                      /\ UNCHANGED <<raised, retval, status>>
                 ELSE Raise(o)
       ELSE /\ pc' = "result"
            /\ UNCHANGED <<calls, raised, retval, status>>
    /\ UNCHANGED <<args, fs, reports, i, out>>

\* lines 144-145: return exit code
Result ==
    /\ pc = "result"
    /\ Return(ExitCode(reports))
    /\ UNCHANGED <<args, fs, reports, i, calls, out, raised>>

\* lines 147-149: except FileNotFoundError
ExceptFileNotFound ==
    /\ pc = "except_fnf"
    /\ out' = Append(out, "ERROR")
    /\ Return(1)
    /\ UNCHANGED <<args, fs, reports, i, calls, raised>>

\* lines 150-152: except KeyboardInterrupt
ExceptKeyboardInterrupt ==
    /\ pc = "except_kbi"
    /\ out' = Append(out, "interrupted")
    /\ Return(130)
    /\ UNCHANGED <<args, fs, reports, i, calls, raised>>

\* lines 153-157: except Exception
ExceptFatal ==
    /\ pc = "except_fatal"
    /\ out' = out \o <<"FATAL", "traceback">>
    /\ Return(1)
    /\ UNCHANGED <<args, fs, reports, i, calls, raised>>

\* the user presses Ctrl-C while main() is executing its own statements
Interrupt ==
    /\ pc # "done"
    /\ Raise("KeyboardInterrupt")
    /\ UNCHANGED <<args, fs, reports, i, calls, out>>

Next ==
    \/ ParseArgs
    \/ Validate
    \/ PrintHeader
    \/ Construct
    \/ Check
    \/ EmptyCheck
    \/ PrintReports
    \/ PrintSummary
    \/ Export
    \/ Result
    \/ ExceptFileNotFound
    \/ ExceptKeyboardInterrupt
    \/ ExceptFatal
    \/ Interrupt

Spec == Init /\ [][Next]_vars

TypeOK ==
    /\ args \in ArgsSet
    /\ fs \in FileSystems
    /\ reports \in ReportSeqs
    /\ i \in 0..(MaxReports + 1)
    /\ retval \in {NoReturn, 0, 1, 130}
    /\ status \in {Running, 0} \cup UncaughtInterruptStatus

\* ------------------------------------------------------------ properties
\* the recorded calls of one collaborator function, in call order
CallsOf(fn) == SelectSeq(calls, LAMBDA c : c.fn = fn)

\* the check call of this run that returned, if any
ChecksReturned ==
    SelectSeq(calls, LAMBDA c :
        /\ c.fn \in {"check_directory", "check_multiple_contracts"}
        /\ c.result = "ok")

\* main() is past the check call and still inside the try body
PastCheck == pc \in {"empty", "print_reports", "summary", "export", "result"}

\* position of a collaborator call in the order of main()
Rank(fn) ==
    CASE fn = "construct" -> 1
      [] fn \in {"check_directory", "check_multiple_contracts"} -> 2
      [] fn = "print_report" -> 3
      [] fn = "print_summary" -> 4
      [] fn = "export_json" -> 5

\* C1: a finished run in which the check returned at least one report and
\* nothing was raised returns 0 when every report is compliant and 1
\* otherwise, whatever verbose, summary-only and export are.
C1_ExitCodeIffAllCompliant ==
    (pc = "done" /\ raised = <<>> /\ reports # <<>>)
        => /\ retval \in {0, 1}
           /\ retval = 0 <=>
                \A k \in 1..Len(reports) : reports[k].overall_compliant
           /\ status = retval

C1_Witness ==
    /\ pc = "done"
    /\ raised = <<>>
    /\ Len(reports) = 2
    /\ reports[1].overall_compliant
    /\ ~reports[2].overall_compliant
    /\ args.summary_only
    /\ Truthy(args.export)
    /\ retval = 1

\* C2: with no contracts and no directory no collaborator is ever called,
\* and a run that is not interrupted prints the help and the error and
\* returns 1, whatever ontology, queries, export, verbose, summary-only are.
C2_MissingInputStopsTheRun ==
    (Len(args.contracts) = 0 /\ ~Truthy(args.directory))
        => /\ calls = <<>>
           /\ (pc = "done" /\ raised = <<>>)
                => /\ retval = 1
                   /\ status = 1
                   /\ out = <<"help", "input_error">>

C2_Witness ==
    /\ pc = "done"
    /\ raised = <<>>
    /\ Len(args.contracts) = 0
    /\ ~Truthy(args.directory)
    /\ Truthy(args.export)
    /\ args.verbose
    /\ retval = 1
    /\ out = <<"help", "input_error">>

\* C3 as stated, read in its most favourable way: in every finished run in
\* which nothing was raised, the check call returned and an export path was
\* given, export_json was called with all the reports and that path.
C3_ExportInEveryRun ==
    (pc = "done" /\ raised = <<>> /\ Len(ChecksReturned) = 1
        /\ Truthy(args.export))
        => \E k \in 1..Len(calls) :
              /\ calls[k].fn = "export_json"
              /\ calls[k].reps = reports
              /\ calls[k].path = args.export

\* C3 amended: in every finished run in which the check returned at least
\* one report, nothing was raised and a non-empty export path was given,
\* export_json was called exactly once, with all the reports and that path,
\* whatever verbose and summary-only are.
C3_ExportWhenReportsExist ==
    (pc = "done" /\ raised = <<>> /\ reports # <<>> /\ Truthy(args.export))
        => /\ Len(CallsOf("export_json")) = 1
           /\ CallsOf("export_json")[1].reps = reports
           /\ CallsOf("export_json")[1].path = args.export
           /\ CallsOf("export_json")[1].result = "ok"

C3_Witness ==
    /\ pc = "done"
    /\ raised = <<>>
    /\ Len(reports) = 2
    /\ args.summary_only
    /\ ~args.verbose
    /\ args.export = "report.json"
    /\ Len(CallsOf("export_json")) = 1
    /\ calls[Len(calls)].fn = "export_json"
    /\ calls[Len(calls)].reps = reports

\* C4: once the check call has returned zero reports, print_report,
\* print_summary and export_json are never called, and a run that is not
\* interrupted prints the warning last and returns 0, also with
\* summary-only or an export path.
C4_NoReportsIsNotAnError ==
    (Len(ChecksReturned) = 1 /\ ChecksReturned[1].ret = <<>>)
        => /\ \A k \in 1..Len(calls) : Rank(calls[k].fn) <= 2
           /\ (pc = "done" /\ raised = <<>>)
                => /\ retval = 0
                   /\ status = 0
                   /\ out[Len(out)] = "no_contracts"

C4_Witness ==
    /\ pc = "done"
    /\ raised = <<>>
    /\ Len(ChecksReturned) = 1
    /\ ChecksReturned[1].ret = <<>>
    /\ args.summary_only
    /\ Truthy(args.export)
    /\ retval = 0
    /\ Len(calls) = 2

\* C5: print_summary is called at most once; in a finished run with at
\* least one report and nothing raised it was called, with all the reports,
\* exactly when there is more than one report or summary-only is set.
C5_SummaryIffManyOrSummaryOnly ==
    /\ Len(CallsOf("print_summary")) <= 1
    /\ (Len(reports) = 1 /\ ~args.summary_only)
            => Len(CallsOf("print_summary")) = 0
    /\ (pc = "done" /\ raised = <<>> /\ reports # <<>>)
            => IF Len(reports) > 1 \/ args.summary_only
               THEN /\ Len(CallsOf("print_summary")) = 1
                    /\ CallsOf("print_summary")[1].reps = reports
               ELSE Len(CallsOf("print_summary")) = 0

C5_Witness ==
    /\ pc = "done"
    /\ raised = <<>>
    /\ Len(reports) = 2
    /\ ~args.summary_only
    /\ Len(CallsOf("print_summary")) = 1
    /\ CallsOf("print_summary")[1].reps = reports

\* C6: a run in which a KeyboardInterrupt was raised, at whatever step,
\* ends with the process exiting with 130.
C6_InterruptAlwaysExits130 ==
    (pc = "done"
        /\ \E k \in 1..Len(raised) : raised[k].kind = "KeyboardInterrupt")
        => status = 130

C8_DirectoryTakesPrecedence ==
    /\ Len(CallsOf("check_directory"))
         + Len(CallsOf("check_multiple_contracts")) <= 1
    /\ Truthy(args.directory)
        => /\ Len(CallsOf("check_multiple_contracts")) = 0
           /\ \A k \in 1..Len(CallsOf("check_directory")) :
                 CallsOf("check_directory")[k].path = args.directory
           /\ (PastCheck \/ reports # <<>>)
                => /\ Len(ChecksReturned) = 1
                   /\ ChecksReturned[1].fn = "check_directory"
                   /\ reports = ChecksReturned[1].ret
    /\ (~Truthy(args.directory) /\ Len(args.contracts) > 0)
        => /\ Len(CallsOf("check_directory")) = 0
           /\ \A k \in 1..Len(CallsOf("check_multiple_contracts")) :
                 CallsOf("check_multiple_contracts")[k].paths
                    = args.contracts
           /\ (PastCheck \/ reports # <<>>)
                => /\ Len(ChecksReturned) = 1
                   /\ ChecksReturned[1].fn = "check_multiple_contracts"
                   /\ reports = ChecksReturned[1].ret

C8_Witness ==
    /\ pc = "result"
    /\ args.directory = "contracts"
    /\ Len(args.contracts) = 2
    /\ Len(CallsOf("check_directory")) = 1
    /\ Len(reports) = 2
    /\ reports = CallsOf("check_directory")[1].ret

\* C9: the print_report calls are, in order, calls for the first reports of
\* the sequence the check returned, each with the verbose flag of the run;
\* with summary-only there is none; without it, once the loop is over,
\* there is exactly one for each report.
C9_ReportsPrintedInOrder ==
    /\ args.summary_only => Len(CallsOf("print_report")) = 0
    /\ Len(CallsOf("print_report")) <= Len(reports)
    /\ \A k \in 1..Len(CallsOf("print_report")) :
          /\ k <= Len(reports)
          /\ CallsOf("print_report")[k].reps = <<reports[k]>>
          /\ CallsOf("print_report")[k].verbose = args.verbose
    /\ (/\ ~args.summary_only
        /\ \/ pc \in {"summary", "export", "result"}
           \/ (pc = "done" /\ raised = <<>> /\ reports # <<>>))
        => Len(CallsOf("print_report")) = Len(reports)

C9_Witness ==
    /\ pc = "summary"
    /\ ~args.summary_only
    /\ args.verbose
    /\ Len(reports) = 2
    /\ Len(CallsOf("print_report")) = 2
    /\ CallsOf("print_report")[2].reps = <<reports[2]>>

\* C10: the collaborator calls of a run are made in the order construction,
\* check, print_report..., print_summary, export_json, each but
\* print_report at most once; no call follows a failed call; main() returns
\* only after its last call; a run whose only exception is an error raised
\* by export_json returns 1, also when every report is compliant.
C10_StrictSequence ==
    /\ \A j, k \in 1..Len(calls) :
          j < k => /\ Rank(calls[j].fn) <= Rank(calls[k].fn)
                   /\ Rank(calls[j].fn) = Rank(calls[k].fn)
                        => calls[j].fn = "print_report"
    /\ \A k \in 1..(Len(calls) - 1) : calls[k].result = "ok"
    /\ retval # NoReturn => pc = "done"
    /\ pc = "done" => ~ENABLED Next
    /\ (/\ pc = "done"
        /\ Len(raised) = 1
        /\ raised[1].at = "export"
        /\ raised[1].kind \in {"FileNotFoundError", "Exception"})
        => /\ retval = 1
           /\ status = 1
           /\ calls[Len(calls)].fn = "export_json"

C10_Witness ==
    /\ pc = "done"
    /\ Len(reports) = 2
    /\ \A k \in 1..2 : reports[k].overall_compliant
    /\ Len(calls) = 6
    /\ calls[6].fn = "export_json"
    /\ calls[6].result = "Exception"
    /\ Len(CallsOf("print_report")) = 2
    /\ Len(CallsOf("print_summary")) = 1
    /\ retval = 1
====
